---- MODULE Spec2Model ----
(***************************************************************************)
(* Model of the trial harness of                                           *)
(* carla_project/ReseachCode/manual_control_steeringwheel_Research_Base.py *)
(*                                                                         *)
(* TrialManager (the trial state machine, its violation bookkeeping and    *)
(* its three CSV streams) driven by the frame loop of game_loop.           *)
(*                                                                         *)
(* Time is counted in units of 1/UnitsPerSecond seconds; every call of     *)
(* time.time() made during one frame returns the frame's instant `now`.    *)
(* Speeds are integers around the speed limit.  The pose columns of the    *)
(* CSV rows come from the host and are left out of the rows, and so are    *)
(* the columns that no trial changes (user name, session code, vehicle).   *)
(* last_op names the TrialManager method the last step ran ("none" when    *)
(* it ran none).                                                           *)
(*                                                                         *)
(* DualControl (the control mapper) shares no field with TrialManager.     *)
(* Spec runs the trial harness with the mapper left as constructed;        *)
(* NameSpec adds the clicks on the name box and StorageSpec the appends    *)
(* that fail.  CtlSpec, ToggleSpec and FaultSpec run the mapper with the   *)
(* trial harness left as constructed.  The mapper's floats are fixed       *)
(* point numbers, One units per 1.0.                                       *)
(***************************************************************************)
EXTENDS Integers, Sequences, FiniteSets, TLC

----------------------------------------------------------------------------
(* Bounds of the model *)

MaxTime == 3
MaxDt == 2
UnitsPerSecond == 2
MaxCtlTicks == 3
MaxEvents == 1
MaxGear == 2

----------------------------------------------------------------------------
(* Values *)

\* Python None for a time stamp and for a trial code
NoTime == 0 - 1
NoCode == "None"
\* float('inf')
Inf == 1000000
\* trial_settings.get('speed_limit', 45.0)
max_speed == 45

\* the codes random.choices can draw
Codes == {"c1", "c2"}
Speeds == (max_speed - 1) .. (max_speed + 1)
Keys == {"K_KP1", "K_RETURN", "K_SPACE"}
\* a name that is empty or blank
NoName == ""
\* where a mouse button can go down
Targets == {"input_box", "add_button", "elsewhere"}

Max(a, b) == IF a >= b THEN a ELSE b
Min(a, b) == IF a <= b THEN a ELSE b

RECURSIVE SumOf(_, _)
SumOf(s, i) == IF s = <<>> THEN 0 ELSE Head(s)[i] + SumOf(Tail(s), i)

VARIABLES
  pc, now, held, last_op,
  trial_active, start_time, end_time, violation_start, violation_durations,
  violation_count, trial_results, display_results, start_screen,
  current_speed, speeding_warning, max_speed_during_run,
  min_speed_during_run, trial_code,
  data_to_write, csv_file, events_csv, totals_csv,
  active_input, new_user_name, user_name

\* the text box of the user name
namevars == <<active_input, new_user_name, user_name>>

trialvars == <<trial_active, start_time, end_time, violation_start,
               violation_durations, violation_count, trial_results,
               display_results, start_screen, current_speed,
               speeding_warning, max_speed_during_run, min_speed_during_run,
               trial_code, data_to_write,
               csv_file, events_csv, totals_csv>>
vars == <<pc, now, held, last_op, trial_active, start_time, end_time,
          violation_start, violation_durations, violation_count,
          trial_results, display_results, start_screen, current_speed,
          speeding_warning, max_speed_during_run, min_speed_during_run,
          trial_code, data_to_write, csv_file,
          events_csv, totals_csv, namevars>>

\* DualControl: its fields, the last step it ran and what that step polled
VARIABLES
  control, steer_cache, autopilot_enabled, joystick, axis_mapping, dampings,
  ctl_op, polled, ctl_ticks, ctl_events

ctlvars == <<control, steer_cache, autopilot_enabled, joystick, axis_mapping,
             dampings, ctl_op, polled, ctl_ticks, ctl_events>>
allvars == <<vars, ctlvars>>

----------------------------------------------------------------------------
(* CSV rows *)

RunHeader == [kind |-> "header", stream |-> "runs"]
EventsHeader == [kind |-> "header", stream |-> "events"]
TotalsHeader == [kind |-> "header", stream |-> "totals"]

\* minutes, seconds and hundredths of a duration
format_time(t) ==
  << (t \div UnitsPerSecond) \div 60,
     (t \div UnitsPerSecond) % 60,
     ((t % UnitsPerSecond) * 100) \div UnitsPerSecond >>

\* a mean as the pair <<sum, count>>; 0 when there is nothing to average
Mean(s, i) == IF Len(s) > 0 THEN <<SumOf(s, i), Len(s)>> ELSE <<0, 1>>

EmptyResults ==
  [computed |-> FALSE, trial_duration |-> 0, avg_speed |-> <<0, 1>>,
   avg_violation_duration |-> <<0, 1>>, violation_count |-> 0]

----------------------------------------------------------------------------
(* TrialManager.__init__ and the state of game_loop before its first frame *)

TrialInit ==
  /\ pc = "tick"
  /\ now = 0
  /\ held = {}
  /\ last_op = "none"
  /\ trial_active = FALSE
  /\ start_time = NoTime
  /\ end_time = NoTime
  /\ violation_start = NoTime
  /\ violation_durations = <<>>
  /\ violation_count = 0
  /\ trial_results = EmptyResults
  /\ display_results = FALSE
  /\ start_screen = FALSE
  /\ current_speed = 0
  /\ speeding_warning = FALSE
  /\ max_speed_during_run = 0
  /\ min_speed_during_run = Inf
  /\ trial_code = NoCode
  /\ data_to_write = <<>>
  /\ csv_file = <<RunHeader>>
  /\ events_csv = <<EventsHeader>>
  /\ totals_csv = <<>>
  /\ active_input = FALSE
  /\ new_user_name = NoName
  /\ user_name = NoName

----------------------------------------------------------------------------
(* TrialManager methods.  Each one is the whole method as an action over   *)
(* the TrialManager fields.                                                *)

\* start_trial that also resets the per-trial counters
start_trial_resets ==
  /\ start_screen' = TRUE
  /\ trial_active' = FALSE
  /\ violation_durations' = <<>>
  /\ violation_count' = 0
  /\ max_speed_during_run' = 0
  /\ min_speed_during_run' = Inf
  /\ UNCHANGED <<start_time, end_time, violation_start, trial_results,
                 display_results, current_speed, speeding_warning,
                 trial_code, data_to_write, csv_file, events_csv,
                 totals_csv>>

\* TrialManager.start_trial: show the ready prompt (the teleport is the host's)
start_trial ==
  /\ start_screen' = TRUE
  /\ trial_active' = FALSE
  /\ UNCHANGED <<start_time, end_time, violation_start, violation_durations,
                 violation_count, trial_results, display_results,
                 current_speed, speeding_warning, max_speed_during_run,
                 min_speed_during_run, trial_code, data_to_write, csv_file, events_csv,
                 totals_csv>>

\* TrialManager.generate_code: random.choices draws any code
generate_code(c) == c \in Codes

\* initiate_trial that forgets to reset violation_count
initiate_trial_keeps_count ==
  /\ trial_active' = TRUE
  /\ start_time' = now
  /\ violation_start' = NoTime
  /\ violation_durations' = <<>>
  /\ display_results' = FALSE
  /\ start_screen' = FALSE
  /\ speeding_warning' = FALSE
  /\ max_speed_during_run' = 0
  /\ min_speed_during_run' = Inf
  /\ \E c \in Codes : generate_code(c) /\ trial_code' = c
  /\ UNCHANGED <<violation_count, end_time, trial_results, current_speed,
                 data_to_write, csv_file, events_csv, totals_csv>>

\* TrialManager.initiate_trial
initiate_trial ==
  /\ trial_active' = TRUE
  /\ start_time' = now
  /\ violation_start' = NoTime
  /\ violation_durations' = <<>>
  /\ violation_count' = 0
  /\ display_results' = FALSE
  /\ start_screen' = FALSE
  /\ speeding_warning' = FALSE
  /\ max_speed_during_run' = 0
  /\ min_speed_during_run' = Inf
  /\ \E c \in Codes : generate_code(c) /\ trial_code' = c
  /\ UNCHANGED <<end_time, trial_results, current_speed,
                 data_to_write, csv_file, events_csv, totals_csv>>

\* calculate_results that averages the wrong column of the records
calculate_results_swapped(t_end) ==
  [computed |-> TRUE,
   trial_duration |-> t_end - start_time,
   avg_speed |-> Mean(violation_durations, 1),
   avg_violation_duration |-> Mean(violation_durations, 2),
   violation_count |-> violation_count]

\* TrialManager.calculate_results, with end_time already set to t_end
calculate_results(t_end) ==
  [computed |-> TRUE,
   trial_duration |-> t_end - start_time,
   avg_speed |-> Mean(violation_durations, 2),
   avg_violation_duration |-> Mean(violation_durations, 1),
   violation_count |-> violation_count]

\* the row TrialManager.write_totals_to_csv appends for the results r
TotalsRow(r) ==
  [kind |-> "row", trial_code |-> trial_code,
   trial_start |-> start_time,
   trial_duration |-> format_time(r.trial_duration),
   avg_speed |-> r.avg_speed,
   max_speed |-> max_speed_during_run, min_speed |-> min_speed_during_run,
   violation_count |-> r.violation_count,
   avg_violation_duration |-> r.avg_violation_duration]

\* write_totals_to_csv that writes nothing for a trial with no run rows
write_totals_skips_empty(r) ==
  totals_csv' =
    IF data_to_write = <<>>
      THEN totals_csv
      ELSE (IF Len(totals_csv) = 0 THEN <<TotalsHeader>> ELSE totals_csv)
             \o <<TotalsRow(r)>>

\* TrialManager.write_totals_to_csv: the header first when the file is empty
write_totals_to_csv(r) ==
  totals_csv' = (IF Len(totals_csv) = 0 THEN <<TotalsHeader>> ELSE totals_csv)
                  \o <<TotalsRow(r)>>

\* the row TrialManager.record_event appends
EventRow(duration) ==
  [kind |-> "row", trial_code |-> trial_code,
   timestamp |-> now \div UnitsPerSecond, event_type |-> "violation",
   violation_duration |-> duration]

\* record_event that keeps the row for later instead of writing it
record_event_not_written(duration) == events_csv' = events_csv

\* TrialManager.record_event
record_event(duration) == events_csv' = Append(events_csv, EventRow(duration))

\* writerows that loses the last row of the batch
writerows_drop_last(file, rows) ==
  file \o (IF Len(rows) > 0 THEN SubSeq(rows, 1, Len(rows) - 1) ELSE rows)

\* csv_writer.writerows(self.data_to_write)
writerows(file, rows) == file \o rows

\* end_trial that closes and records a window still open at the end
end_trial_closes_window ==
  /\ trial_active' = FALSE
  /\ end_time' = now
  /\ trial_results' = calculate_results(now)
  /\ display_results' = TRUE
  /\ csv_file' = writerows(csv_file, data_to_write)
  /\ data_to_write' = <<>>
  /\ write_totals_to_csv(calculate_results(now))
  /\ IF violation_start # NoTime
       THEN /\ violation_durations' =
                 Append(violation_durations,
                        <<now - violation_start, current_speed>>)
            /\ record_event(now - violation_start)
            /\ violation_start' = NoTime
       ELSE UNCHANGED <<violation_durations, events_csv, violation_start>>
  /\ UNCHANGED <<start_time, violation_count, start_screen, current_speed,
                 speeding_warning, max_speed_during_run,
                 min_speed_during_run, trial_code>>

\* TrialManager.end_trial
end_trial ==
  /\ trial_active' = FALSE
  /\ end_time' = now
  /\ trial_results' = calculate_results(now)
  /\ display_results' = TRUE
  /\ csv_file' = writerows(csv_file, data_to_write)
  /\ data_to_write' = <<>>
  /\ write_totals_to_csv(calculate_results(now))
  /\ UNCHANGED <<start_time, violation_start, violation_durations,
                 violation_count, start_screen, current_speed,
                 speeding_warning, max_speed_during_run,
                 min_speed_during_run, trial_code, events_csv>>

\* a duration measured from the start of the trial
violation_duration_since_start == now - start_time

\* violation_duration = violation_end - self.violation_start
violation_duration == now - violation_start

\* the comparison with >= in place of >
IsSpeedingGE(speed) == speed >= max_speed

\* the comparison of track_speed against the speed limit
IsSpeeding(speed) == speed > max_speed

\* "Collect data every 500 milliseconds":
\*   time.time() - self.start_time >= len(self.data_to_write) * 0.5
SampleDue == (now - start_time) * 2 >= Len(data_to_write) * UnitsPerSecond

\* the row track_speed buffers
RunRow(speed) ==
  [kind |-> "row", trial_code |-> trial_code,
   timestamp |-> now \div UnitsPerSecond, elapsed |-> now - start_time,
   speed |-> speed]

\* track_speed that follows the speed range outside a trial too
track_speed_ungated(speed) ==
  /\ current_speed' = speed
  /\ max_speed_during_run' = Max(max_speed_during_run, speed)
  /\ min_speed_during_run' = Min(min_speed_during_run, speed)
  /\ IF trial_active
       THEN /\ IF IsSpeeding(speed)
                 THEN /\ IF violation_start = NoTime
                           THEN /\ violation_start' = now
                                /\ violation_count' = violation_count + 1
                           ELSE UNCHANGED <<violation_start, violation_count>>
                      /\ speeding_warning' = TRUE
                      /\ UNCHANGED <<violation_durations, events_csv>>
                 ELSE /\ IF violation_start # NoTime
                           THEN /\ violation_durations' =
                                     Append(violation_durations,
                                            <<violation_duration, speed>>)
                                /\ record_event(violation_duration)
                                /\ violation_start' = NoTime
                           ELSE UNCHANGED <<violation_durations, events_csv,
                                            violation_start>>
                      /\ speeding_warning' = FALSE
                      /\ UNCHANGED violation_count
            /\ IF SampleDue
                 THEN data_to_write' = Append(data_to_write, RunRow(speed))
                 ELSE UNCHANGED data_to_write
       ELSE UNCHANGED <<violation_start, violation_count, speeding_warning,
                        violation_durations, events_csv, data_to_write>>
  /\ UNCHANGED <<trial_active, start_time, end_time, trial_results,
                 display_results, start_screen, trial_code, csv_file, totals_csv>>

\* track_speed that stores the peak speed of the trial in the record
track_speed_stores_peak(speed) ==
  /\ current_speed' = speed
  /\ IF trial_active
       THEN /\ max_speed_during_run' = Max(max_speed_during_run, speed)
            /\ min_speed_during_run' = Min(min_speed_during_run, speed)
            /\ IF IsSpeeding(speed)
                 THEN /\ IF violation_start = NoTime
                           THEN /\ violation_start' = now
                                /\ violation_count' = violation_count + 1
                           ELSE UNCHANGED <<violation_start, violation_count>>
                      /\ speeding_warning' = TRUE
                      /\ UNCHANGED <<violation_durations, events_csv>>
                 ELSE /\ IF violation_start # NoTime
                           THEN /\ violation_durations' =
                                     Append(violation_durations,
                                            <<violation_duration,
                                              max_speed_during_run>>)
                                /\ record_event(violation_duration)
                                /\ violation_start' = NoTime
                           ELSE UNCHANGED <<violation_durations, events_csv,
                                            violation_start>>
                      /\ speeding_warning' = FALSE
                      /\ UNCHANGED violation_count
            /\ IF SampleDue
                 THEN data_to_write' = Append(data_to_write, RunRow(speed))
                 ELSE UNCHANGED data_to_write
       ELSE UNCHANGED <<max_speed_during_run, min_speed_during_run,
                        violation_start, violation_count, speeding_warning,
                        violation_durations, events_csv, data_to_write>>
  /\ UNCHANGED <<trial_active, start_time, end_time, trial_results,
                 display_results, start_screen, trial_code, csv_file, totals_csv>>

\* TrialManager.track_speed
track_speed(speed) ==
  /\ current_speed' = speed
  /\ IF trial_active
       THEN /\ max_speed_during_run' = Max(max_speed_during_run, speed)
            /\ min_speed_during_run' = Min(min_speed_during_run, speed)
            /\ IF IsSpeeding(speed)
                 THEN /\ IF violation_start = NoTime
                           THEN /\ violation_start' = now
                                /\ violation_count' = violation_count + 1
                           ELSE UNCHANGED <<violation_start, violation_count>>
                      /\ speeding_warning' = TRUE
                      /\ UNCHANGED <<violation_durations, events_csv>>
                 ELSE /\ IF violation_start # NoTime
                           THEN /\ violation_durations' =
                                     Append(violation_durations,
                                            <<violation_duration, speed>>)
                                /\ record_event(violation_duration)
                                /\ violation_start' = NoTime
                           ELSE UNCHANGED <<violation_durations, events_csv,
                                            violation_start>>
                      /\ speeding_warning' = FALSE
                      /\ UNCHANGED violation_count
            /\ IF SampleDue
                 THEN data_to_write' = Append(data_to_write, RunRow(speed))
                 ELSE UNCHANGED data_to_write
       ELSE UNCHANGED <<max_speed_during_run, min_speed_during_run,
                        violation_start, violation_count, speeding_warning,
                        violation_durations, events_csv, data_to_write>>
  /\ UNCHANGED <<trial_active, start_time, end_time, trial_results,
                 display_results, start_screen, trial_code, csv_file, totals_csv>>

\* handle_event whose Enter on the results screen arms the next trial
handle_event_dismiss_rearms(k) ==
  IF k = "K_RETURN"
    THEN IF display_results
           THEN /\ display_results' = FALSE
                /\ start_screen' = TRUE
                /\ last_op' = "dismiss"
                /\ UNCHANGED <<trial_active, start_time, end_time,
                               violation_start, violation_durations,
                               violation_count, trial_results,
                               current_speed, speeding_warning,
                               max_speed_during_run, min_speed_during_run,
                               trial_code, data_to_write, csv_file,
                               events_csv, totals_csv>>
           ELSE IF start_screen
                  THEN initiate_trial /\ last_op' = "initiate_trial"
                  ELSE UNCHANGED trialvars /\ last_op' = "handle_event"
    ELSE IF k = "K_SPACE" /\ trial_active
           THEN end_trial /\ last_op' = "end_trial"
           ELSE UNCHANGED trialvars /\ last_op' = "handle_event"

\* TrialManager.handle_event for a KEYDOWN of key k (first block)
handle_event(k) ==
  IF k = "K_RETURN"
    THEN IF display_results
           THEN /\ display_results' = FALSE
                /\ last_op' = "dismiss"
                /\ UNCHANGED <<trial_active, start_time, end_time,
                               violation_start, violation_durations,
                               violation_count, trial_results, start_screen,
                               current_speed, speeding_warning,
                               max_speed_during_run, min_speed_during_run,
                               trial_code,
                               data_to_write, csv_file, events_csv,
                               totals_csv>>
           ELSE IF start_screen
                  THEN initiate_trial /\ last_op' = "initiate_trial"
                  ELSE UNCHANGED trialvars /\ last_op' = "handle_event"
    ELSE IF k = "K_SPACE" /\ trial_active
           THEN end_trial /\ last_op' = "end_trial"
           ELSE UNCHANGED trialvars /\ last_op' = "handle_event"

\* save_user_name(name): the name becomes the user's name
save_user_name(name) == user_name' = name

\* the text a key adds to the name: Space alone leaves it blank
Typed(k) ==
  IF k = "K_SPACE" THEN new_user_name ELSE "name"

\* TrialManager.handle_event for a KEYDOWN of key k (last block): the text
\* box takes the key when it is active (the dropdown is left out)
handle_event_text(k) ==
  IF active_input
    THEN IF k = "K_RETURN"
           THEN /\ IF new_user_name # NoName
                     THEN save_user_name(new_user_name) /\ new_user_name' = NoName
                     ELSE UNCHANGED <<user_name, new_user_name>>
                /\ active_input' = FALSE
           ELSE /\ new_user_name' = Typed(k)
                /\ UNCHANGED <<active_input, user_name>>
    ELSE UNCHANGED namevars

\* TrialManager.handle_event for a MOUSEBUTTONDOWN on target
handle_event_mouse(target) ==
  IF target = "input_box"
    THEN active_input' = TRUE /\ UNCHANGED <<new_user_name, user_name>>
  ELSE IF target = "add_button"
    THEN /\ IF new_user_name # NoName
              THEN save_user_name(new_user_name) /\ new_user_name' = NoName
              ELSE UNCHANGED <<user_name, new_user_name>>
         /\ UNCHANGED active_input
  ELSE active_input' = FALSE /\ UNCHANGED <<new_user_name, user_name>>

----------------------------------------------------------------------------
(* game_loop: one frame is tick, the event queue, the four polled checks   *)
(* and track_speed.                                                        *)

\* clock.tick_busy_loop(60): the frame begins, dt units after the last one
Tick ==
  /\ pc = "tick"
  /\ \E dt \in 1 .. MaxDt : now + dt <= MaxTime /\ now' = now + dt
  /\ pc' = "events"
  /\ last_op' = "none"
  /\ UNCHANGED <<held>>
  /\ UNCHANGED trialvars
  /\ UNCHANGED <<ctlvars, namevars>>

\* parse_events: a KEYDOWN event of the queue goes to handle_event
KeyDown ==
  /\ pc = "events"
  /\ \E k \in Keys \ held :
       /\ held' = held \cup {k}
       /\ handle_event(k)
       /\ handle_event_text(k)
  /\ UNCHANGED <<pc, now>>
  /\ UNCHANGED ctlvars

\* parse_events: a MOUSEBUTTONDOWN event of the queue goes to handle_event
MouseDown ==
  /\ pc = "events"
  /\ \E target \in Targets : handle_event_mouse(target)
  /\ last_op' = "handle_event"
  /\ UNCHANGED <<pc, now, held>>
  /\ UNCHANGED trialvars
  /\ UNCHANGED ctlvars

\* parse_events: a KEYUP event of the queue (no TrialManager call)
KeyUp ==
  /\ pc = "events"
  /\ \E k \in held : held' = held \ {k}
  /\ last_op' = "none"
  /\ UNCHANGED <<pc, now>>
  /\ UNCHANGED trialvars
  /\ UNCHANGED <<ctlvars, namevars>>

\* the event queue is drained; keys = pygame.key.get_pressed()
EventsDone ==
  /\ pc = "events"
  /\ pc' = "poll_kp1"
  /\ last_op' = "none"
  /\ UNCHANGED <<now, held>>
  /\ UNCHANGED trialvars
  /\ UNCHANGED <<ctlvars, namevars>>

\* if keys[pygame.K_KP1]: trial_manager.start_trial(world.player)
PollArm ==
  /\ pc = "poll_kp1"
  /\ pc' = "poll_start"
  /\ IF "K_KP1" \in held
       THEN start_trial /\ last_op' = "start_trial"
       ELSE UNCHANGED trialvars /\ last_op' = "none"
  /\ UNCHANGED <<now, held>>
  /\ UNCHANGED <<ctlvars, namevars>>

\* the polled start without its start_screen gate
PollStartUngated ==
  /\ pc = "poll_start"
  /\ pc' = "poll_end"
  /\ IF "K_RETURN" \in held
       THEN initiate_trial /\ last_op' = "initiate_trial"
       ELSE UNCHANGED trialvars /\ last_op' = "none"
  /\ UNCHANGED <<now, held>>
  /\ UNCHANGED <<ctlvars, namevars>>

\* if keys[pygame.K_RETURN] and trial_manager.start_screen: initiate_trial()
PollStart ==
  /\ pc = "poll_start"
  /\ pc' = "poll_end"
  /\ IF "K_RETURN" \in held /\ start_screen
       THEN initiate_trial /\ last_op' = "initiate_trial"
       ELSE UNCHANGED trialvars /\ last_op' = "none"
  /\ UNCHANGED <<now, held>>
  /\ UNCHANGED <<ctlvars, namevars>>

\* if keys[pygame.K_SPACE] and trial_manager.trial_active: end_trial()
PollEnd ==
  /\ pc = "poll_end"
  /\ pc' = "poll_rearm"
  /\ IF "K_SPACE" \in held /\ trial_active
       THEN end_trial /\ last_op' = "end_trial"
       ELSE UNCHANGED trialvars /\ last_op' = "none"
  /\ UNCHANGED <<now, held>>
  /\ UNCHANGED <<ctlvars, namevars>>

\* if keys[pygame.K_RETURN] and trial_manager.display_results: start_trial()
PollRearm ==
  /\ pc = "poll_rearm"
  /\ pc' = "track"
  /\ IF "K_RETURN" \in held /\ display_results
       THEN start_trial /\ last_op' = "start_trial"
       ELSE UNCHANGED trialvars /\ last_op' = "none"
  /\ UNCHANGED <<now, held>>
  /\ UNCHANGED <<ctlvars, namevars>>

\* speed = 2.23694 * |velocity|; trial_manager.track_speed(speed, player)
TrackSpeed ==
  /\ pc = "track"
  /\ pc' = "tick"
  /\ \E speed \in Speeds : track_speed(speed)
  /\ last_op' = "track_speed"
  /\ UNCHANGED <<now, held>>
  /\ UNCHANGED <<ctlvars, namevars>>

----------------------------------------------------------------------------
(* DualControl: values.  A float is the integer One times its value; an    *)
(* axis reading and a damping are in tenths.                               *)

\* 1.0
One == 10000
\* the bound of the steer accumulator, 0.7
SteerLimit == 7000
\* 'joystick': None in an axis mapping
NoAxis == 0 - 1

\* joystick.get_axis(i), in tenths
RawAxis == {0 - 10, 0, 10}
\* joystick.get_numaxes()
NumAxes == {2, 3}
\* clock.get_time(), in milliseconds
FrameMs == {16, 500}
\* the keys _parse_vehicle_keys polls (an arrow key or its letter)
DriveKeys == {"K_UP", "K_DOWN", "K_LEFT", "K_RIGHT", "K_SPACE"}
\* the keys whose KEYUP changes the command in _handle_key
EventKeys == {"K_q", "reverse_key", "handbrake_key", "K_m", "K_COMMA",
              "K_PERIOD", "K_p"}
\* the buttons whose JOYBUTTONDOWN changes the command
Buttons == {"reverse_button", "handbrake_button"}
\* the [Joystick] section of the configuration: axis indices
AxisMappings ==
  { [steering |-> 0, throttle |-> 1, brake |-> 2],
    [steering |-> 0, throttle |-> 1, brake |-> NoAxis] }
\* steering_damping, throttle_damping and brake_damping, in tenths
Dampings ==
  { [steering |-> 5, throttle |-> 10, brake |-> 10],
    [steering |-> 10, throttle |-> 20, brake |-> 5] }
\* world.player.get_control().gear
HostGears == (0 - 1) .. 1

\* carla.VehicleControl()
VehicleControl ==
  [throttle |-> 0, steer |-> 0, brake |-> 0, hand_brake |-> FALSE,
   reverse |-> FALSE, manual_gear_shift |-> FALSE, gear |-> 0]

\* what a tick that polled nothing leaves in polled
NothingPolled == [applied |-> FALSE, keys |-> {}, ms |-> 0, js |-> <<>>]

----------------------------------------------------------------------------
(* DualControl.__init__ *)

\* the mapper as constructed without a joystick and with the default dampings
DualControlDefault ==
  /\ control = VehicleControl
  /\ steer_cache = 0
  /\ autopilot_enabled = FALSE
  /\ joystick = FALSE
  /\ axis_mapping = [steering |-> NoAxis, throttle |-> NoAxis,
                     brake |-> NoAxis]
  /\ dampings = [steering |-> 5, throttle |-> 10, brake |-> 10]
  /\ ctl_op = "none"
  /\ polled = NothingPolled
  /\ ctl_ticks = 0
  /\ ctl_events = 0

\* the mapper as constructed from any configuration, with or without a device
DualControlInit ==
  /\ control = VehicleControl
  /\ steer_cache = 0
  /\ autopilot_enabled \in BOOLEAN
  /\ joystick \in BOOLEAN
  /\ axis_mapping \in AxisMappings
  /\ dampings \in Dampings
  /\ ctl_op = "none"
  /\ polled = NothingPolled
  /\ ctl_ticks = 0
  /\ ctl_events = 0

----------------------------------------------------------------------------
(* The curves of _parse_vehicle_wheel *)

\* math.log10 of a100 hundredths
log10(a100) ==
  CASE a100 = 70 -> 0 - 1549
    [] a100 = 77 -> 0 - 1135
    [] a100 = 84 -> 0 - 757
    [] a100 = 91 -> 0 - 410
    [] a100 = 98 -> 0 - 88
    [] a100 = 105 -> 212
    [] a100 = 112 -> 492
    [] a100 = 119 -> 755
    [] a100 = 126 -> 1004
    [] a100 = 133 -> 1239
    [] a100 = 140 -> 1461
    [] a100 = 147 -> 1673
    [] a100 = 154 -> 1875
    [] a100 = 161 -> 2068
    [] a100 = 168 -> 2253
    [] a100 = 175 -> 2430
    [] a100 = 182 -> 2601
    [] a100 = 189 -> 2765
    [] a100 = 196 -> 2923
    [] a100 = 203 -> 3075
    [] a100 = 210 -> 3222

\* math.tan of a100 hundredths of a radian, 0 <= a100
tan_table(a100) ==
  CASE a100 = 0 -> 0
    [] a100 = 11 -> 1104
    [] a100 = 22 -> 2236
    [] a100 = 33 -> 3425
    [] a100 = 44 -> 4708
    [] a100 = 55 -> 6131
    [] a100 = 66 -> 7761
    [] a100 = 77 -> 9697
    [] a100 = 88 -> 12097
    [] a100 = 99 -> 15237
    [] a100 = 110 -> 19648

\* math.tan, an odd function
tan(a100) == IF a100 >= 0 THEN tan_table(a100) ELSE 0 - tan_table(0 - a100)

\* steering_damping * math.tan(1.1 * jsInputs[steering_axis])
steerCmd(raw) == (dampings.steering * tan(11 * raw)) \div 10

\* damping * (1.6 + (2.05 * math.log10(-0.7 * raw + 1.4) - 1.2) / 0.92)
pedalCmd(damping, raw) ==
  (damping * ((16 * One) \div 10
              + (((205 * log10(140 - 7 * raw)) \div 100 - (12 * One) \div 10)
                 * 100) \div 92)) \div 10

\* the pedal value stored as it comes from the curve
clamp01_off(x) == x

\* max(0, min(1, x))
clamp01(x) == Max(0, Min(One, x))

\* steering, throttle and brake axes are all configured
FullyMapped ==
  /\ axis_mapping.steering # NoAxis
  /\ axis_mapping.throttle # NoAxis
  /\ axis_mapping.brake # NoAxis

\* jsInputs[axis] with an index the device does not provide: IndexError
WheelRaises(numAxes) ==
  /\ FullyMapped
  /\ \/ axis_mapping.steering >= numAxes
     \/ axis_mapping.throttle >= numAxes
     \/ axis_mapping.brake >= numAxes

\* jsInputs for a device of numAxes axes; readings that no curve is applied
\* to are taken as 0
Readings(numAxes) ==
  IF FullyMapped
    THEN [0 .. (numAxes - 1) -> RawAxis]
    ELSE {[i \in 0 .. (numAxes - 1) |-> 0]}

\* the readings the curves are applied to: steering, throttle, brake
UsedInputs(jsInputs) ==
  IF FullyMapped
    THEN << jsInputs[axis_mapping.steering], jsInputs[axis_mapping.throttle],
            jsInputs[axis_mapping.brake] >>
    ELSE <<>>

\* the wheel that leaves a pedal alone while its key is held
parse_vehicle_wheel_keys_win(c, jsInputs) ==
  IF FullyMapped
    THEN [c EXCEPT
            !.steer = steerCmd(jsInputs[axis_mapping.steering]),
            !.brake = IF c.brake = One THEN One
                      ELSE clamp01(pedalCmd(dampings.brake,
                                            jsInputs[axis_mapping.brake])),
            !.throttle = IF c.throttle = One THEN One
                         ELSE clamp01(pedalCmd(dampings.throttle,
                                               jsInputs[axis_mapping.throttle]))]
    ELSE c

\* DualControl._parse_vehicle_wheel on the command c
parse_vehicle_wheel(c, jsInputs) ==
  IF FullyMapped
    THEN [c EXCEPT
            !.steer = steerCmd(jsInputs[axis_mapping.steering]),
            !.brake = clamp01(pedalCmd(dampings.brake,
                                       jsInputs[axis_mapping.brake])),
            !.throttle = clamp01(pedalCmd(dampings.throttle,
                                          jsInputs[axis_mapping.throttle]))]
    ELSE c

----------------------------------------------------------------------------
(* DualControl._parse_vehicle_keys *)

\* steer_increment = 5e-4 * milliseconds
steer_increment(ms) == (5 * One * ms) \div 10000

\* the accumulator that ignores how long the frame took
next_steer_cache_unit_step(keys, ms) ==
  LET moved == IF "K_LEFT" \in keys THEN steer_cache - 5
               ELSE IF "K_RIGHT" \in keys THEN steer_cache + 5
               ELSE 0
  IN Min(SteerLimit, Max(0 - SteerLimit, moved))

\* _steer_cache after the left / right / neither branch and the clamp
next_steer_cache(keys, ms) ==
  LET moved == IF "K_LEFT" \in keys THEN steer_cache - steer_increment(ms)
               ELSE IF "K_RIGHT" \in keys THEN steer_cache + steer_increment(ms)
               ELSE 0
  IN Min(SteerLimit, Max(0 - SteerLimit, moved))

\* the multiples of 0.1 of the accumulator's range
Tenths == {t * (One \div 10) : t \in (0 - 7) .. 7}

\* round(x, 1): the nearest tenth; which neighbour a value halfway between
\* two tenths goes to depends on the float that stands for it
round1(x) == {t \in Tenths : 2 * (IF x >= t THEN x - t ELSE t - x) <= One \div 10}

\* the command after _parse_vehicle_keys, steer being the rounded accumulator
parse_vehicle_keys(keys, steer) ==
  [control EXCEPT
     !.throttle = IF "K_UP" \in keys THEN One ELSE 0,
     !.steer = steer,
     !.brake = IF "K_DOWN" \in keys THEN One ELSE 0,
     !.hand_brake = "K_SPACE" \in keys]

----------------------------------------------------------------------------
(* DualControl._handle_key and _handle_joystick_button *)

\* gear = 1 if reverse else -1
ToggleReverse(c) == [c EXCEPT !.gear = IF c.reverse THEN 1 ELSE 0 - 1]

\* hand_brake = not hand_brake
ToggleHandbrake(c) == [c EXCEPT !.hand_brake = ~c.hand_brake]

\* DualControl._handle_key for the KEYUP of k
handle_key(k) ==
  LET mapped == IF k = "reverse_key" THEN ToggleReverse(control)
                ELSE IF k = "handbrake_key" THEN ToggleHandbrake(control)
                ELSE control
  IN IF k = "K_q"
       THEN control' = ToggleReverse(mapped) /\ UNCHANGED autopilot_enabled
     ELSE IF k = "K_m"
       THEN /\ \E g \in HostGears :
                 control' = [mapped EXCEPT
                               !.manual_gear_shift = ~mapped.manual_gear_shift,
                               !.gear = g]
            /\ UNCHANGED autopilot_enabled
     ELSE IF mapped.manual_gear_shift /\ k = "K_COMMA"
       THEN /\ control' = [mapped EXCEPT !.gear = Max(0 - 1, mapped.gear - 1)]
            /\ UNCHANGED autopilot_enabled
     ELSE IF mapped.manual_gear_shift /\ k = "K_PERIOD"
       THEN /\ control' = [mapped EXCEPT !.gear = mapped.gear + 1]
            /\ UNCHANGED autopilot_enabled
     ELSE IF k = "K_p"
       THEN control' = mapped /\ autopilot_enabled' = ~autopilot_enabled
     ELSE control' = mapped /\ UNCHANGED autopilot_enabled

\* DualControl._handle_joystick_button for the JOYBUTTONDOWN of b
handle_joystick_button(b) ==
  /\ control' = IF b = "reverse_button" THEN ToggleReverse(control)
                ELSE IF b = "handbrake_button" THEN ToggleHandbrake(control)
                ELSE control
  /\ UNCHANGED autopilot_enabled

----------------------------------------------------------------------------
(* DualControl.parse_events: the events of the queue, then the polled      *)
(* part, which is _parse_vehicle_keys, then _parse_vehicle_wheel when      *)
(* there is a device, then reverse and apply_control.  ctl_op names the    *)
(* step the mapper ran last: an event's key or button, "parse_vehicle_keys" *)
(* between the two halves of the polled part, "parse_events" when the tick *)
(* is complete and "raised" when it ended in an exception.                 *)

\* the mapper is between two ticks or between two events of the queue
AtEvents == ctl_op \notin {"parse_vehicle_keys", "raised"}

\* a KEYUP event of the queue
KeyUpEvent ==
  /\ AtEvents
  /\ ctl_events < MaxEvents
  /\ ctl_events' = ctl_events + 1
  /\ \E k \in EventKeys :
       /\ (k = "K_PERIOD" /\ control.manual_gear_shift) => control.gear < MaxGear
       /\ handle_key(k)
       /\ ctl_op' = k
  /\ UNCHANGED <<steer_cache, joystick, axis_mapping, dampings, polled,
                 ctl_ticks>>
  /\ UNCHANGED vars

\* a JOYBUTTONDOWN event of the queue; only a device sends one
ButtonEvent ==
  /\ AtEvents
  /\ joystick
  /\ ctl_events < MaxEvents
  /\ ctl_events' = ctl_events + 1
  /\ \E b \in Buttons :
       /\ handle_joystick_button(b)
       /\ ctl_op' = b
  /\ UNCHANGED <<steer_cache, joystick, axis_mapping, dampings, polled,
                 ctl_ticks>>
  /\ UNCHANGED vars

\* if not self._autopilot_enabled: false, the tick ends with nothing polled
AutopilotTick ==
  /\ AtEvents
  /\ ctl_ticks < MaxCtlTicks
  /\ autopilot_enabled
  /\ ctl_ticks' = ctl_ticks + 1
  /\ ctl_op' = "parse_events"
  /\ polled' = NothingPolled
  /\ UNCHANGED <<control, steer_cache, autopilot_enabled, joystick,
                 axis_mapping, dampings, ctl_events>>
  /\ UNCHANGED vars

\* self._parse_vehicle_keys(pygame.key.get_pressed(), clock.get_time())
PollKeys ==
  /\ AtEvents
  /\ ctl_ticks < MaxCtlTicks
  /\ ~autopilot_enabled
  /\ ctl_ticks' = ctl_ticks + 1
  /\ \E keys \in SUBSET DriveKeys, ms \in FrameMs :
       /\ steer_cache' = next_steer_cache(keys, ms)
       /\ \E steer \in round1(steer_cache') :
            control' = parse_vehicle_keys(keys, steer)
       /\ polled' = [applied |-> FALSE, keys |-> keys, ms |-> ms, js |-> <<>>]
  /\ ctl_op' = "parse_vehicle_keys"
  /\ UNCHANGED <<autopilot_enabled, joystick, axis_mapping, dampings,
                 ctl_events>>
  /\ UNCHANGED vars

\* control.reverse = control.gear < 0; world.player.apply_control(control)
Apply(c, jsInputs) ==
  /\ control' = [c EXCEPT !.reverse = c.gear < 0]
  /\ polled' = [polled EXCEPT !.applied = TRUE, !.js = jsInputs]
  /\ ctl_op' = "parse_events"

\* if self.joystick: self._parse_vehicle_wheel(); then reverse and apply
PollWheel ==
  /\ ctl_op = "parse_vehicle_keys"
  /\ IF ~joystick
       THEN Apply(control, <<>>)
       ELSE \E numAxes \in NumAxes :
            \E jsInputs \in Readings(numAxes) :
              IF WheelRaises(numAxes)
                THEN ctl_op' = "raised" /\ UNCHANGED <<control, polled>>
                ELSE Apply(parse_vehicle_wheel(control, jsInputs),
                           UsedInputs(jsInputs))
  /\ UNCHANGED <<steer_cache, autopilot_enabled, joystick, axis_mapping,
                 dampings, ctl_ticks, ctl_events>>
  /\ UNCHANGED vars

----------------------------------------------------------------------------
(* A pedal reading outside the curve's domain *)

\* readings, in tenths, of a device that does not keep to [-1, 1]
OutOfRange == {20}

\* math.log10 takes -0.7 * raw + 1.4 only when it is positive
InDomain(raw) == 140 - 7 * raw > 0

\* _parse_vehicle_wheel with a throttle or brake reading outside the domain:
\* math.log10 raises ValueError before anything is stored in the command,
\* and nothing catches it
PollWheelOutOfDomain ==
  /\ ctl_op = "parse_vehicle_keys"
  /\ joystick
  /\ \E numAxes \in NumAxes :
     \E jsInputs \in [0 .. (numAxes - 1) -> RawAxis \cup OutOfRange] :
       /\ ~WheelRaises(numAxes)
       /\ FullyMapped
       /\ jsInputs[axis_mapping.steering] \in RawAxis
       /\ \/ ~InDomain(jsInputs[axis_mapping.throttle])
          \/ ~InDomain(jsInputs[axis_mapping.brake])
       /\ polled' = [polled EXCEPT !.js = UsedInputs(jsInputs)]
  /\ ctl_op' = "raised"
  /\ UNCHANGED <<control, steer_cache, autopilot_enabled, joystick,
                 axis_mapping, dampings, ctl_ticks, ctl_events>>
  /\ UNCHANGED vars

----------------------------------------------------------------------------
(* Appends that fail.  open(), writerow() and writerows() raise OSError     *)
(* when the log cannot be written; no caller catches it, so it leaves the  *)
(* method at that line, then handle_event or game_loop's while loop, and   *)
(* game_loop's finally ends the session: pc = "raised".                    *)

\* where end_trial can fail: the run batch or the totals row
FailPoints == {"writerows", "write_totals_to_csv"}

\* TrialManager.end_trial up to the append that raises
end_trial_raises(point) ==
  /\ trial_active' = FALSE
  /\ end_time' = now
  /\ trial_results' = calculate_results(now)
  /\ display_results' = TRUE
  /\ IF point = "writerows"
       THEN UNCHANGED <<csv_file, data_to_write>>
       ELSE /\ csv_file' = writerows(csv_file, data_to_write)
            /\ data_to_write' = <<>>
  /\ UNCHANGED <<start_time, violation_start, violation_durations,
                 violation_count, start_screen, current_speed,
                 speeding_warning, max_speed_during_run,
                 min_speed_during_run, trial_code, events_csv, totals_csv>>

\* TrialManager.track_speed on a tick that closes a window, up to
\* record_event, which raises
track_speed_raises(speed) ==
  /\ trial_active
  /\ ~IsSpeeding(speed)
  /\ violation_start # NoTime
  /\ current_speed' = speed
  /\ max_speed_during_run' = Max(max_speed_during_run, speed)
  /\ min_speed_during_run' = Min(min_speed_during_run, speed)
  /\ violation_durations' =
       Append(violation_durations, <<violation_duration, speed>>)
  /\ UNCHANGED <<trial_active, start_time, end_time, violation_start,
                 violation_count, trial_results, display_results,
                 start_screen, speeding_warning, trial_code, data_to_write,
                 csv_file, events_csv, totals_csv>>

\* parse_events: the KEYDOWN of Space ends the trial and an append raises
KeyDownRaises ==
  /\ pc = "events"
  /\ "K_SPACE" \notin held
  /\ trial_active
  /\ held' = held \cup {"K_SPACE"}
  /\ \E point \in FailPoints : end_trial_raises(point)
  /\ pc' = "raised"
  /\ last_op' = "end_trial_raises"
  /\ UNCHANGED <<now, namevars>>
  /\ UNCHANGED ctlvars

\* the polled Space ends the trial and an append raises
PollEndRaises ==
  /\ pc = "poll_end"
  /\ "K_SPACE" \in held /\ trial_active
  /\ \E point \in FailPoints : end_trial_raises(point)
  /\ pc' = "raised"
  /\ last_op' = "end_trial_raises"
  /\ UNCHANGED <<now, held, namevars>>
  /\ UNCHANGED ctlvars

\* track_speed closes a window and record_event raises
TrackSpeedRaises ==
  /\ pc = "track"
  /\ \E speed \in Speeds : track_speed_raises(speed)
  /\ pc' = "raised"
  /\ last_op' = "track_speed_raises"
  /\ UNCHANGED <<now, held, namevars>>
  /\ UNCHANGED ctlvars

----------------------------------------------------------------------------
(* The specifications *)

Init == TrialInit /\ DualControlDefault

\* the trial harness with the mouse: the text box of the user name in use
NameNext ==
  \/ Tick
  \/ KeyDown
  \/ KeyUp
  \/ MouseDown
  \/ EventsDone
  \/ PollArm
  \/ PollStart
  \/ PollEnd
  \/ PollRearm
  \/ TrackSpeed

NameSpec == Init /\ [][NameNext]_vars

\* the trial harness on a log that can fail
StorageNext ==
  \/ Tick
  \/ KeyDown
  \/ KeyDownRaises
  \/ KeyUp
  \/ EventsDone
  \/ PollArm
  \/ PollStart
  \/ PollEnd
  \/ PollEndRaises
  \/ PollRearm
  \/ TrackSpeed
  \/ TrackSpeedRaises

StorageSpec == Init /\ [][StorageNext]_vars

\* the polled part of parse_events on its own, under every configuration
CtlInit == TrialInit /\ DualControlInit

CtlNext ==
  \/ AutopilotTick
  \/ PollKeys
  \/ PollWheel

CtlSpec == CtlInit /\ [][CtlNext]_allvars

\* the polled part with a device whose pedals can read outside [-1, 1]
FaultNext ==
  \/ AutopilotTick
  \/ PollKeys
  \/ PollWheel
  \/ PollWheelOutOfDomain

FaultSpec == CtlInit /\ [][FaultNext]_allvars

\* the events and the polled part, the axes of the device (if any) not all
\* mapped, so that the wheel leaves the command of the keys as it is
ToggleInit ==
  /\ TrialInit
  /\ DualControlInit
  /\ ~FullyMapped
  /\ dampings = [steering |-> 5, throttle |-> 10, brake |-> 10]

ToggleNext ==
  \/ KeyUpEvent
  \/ ButtonEvent
  \/ AutopilotTick
  \/ PollKeys
  \/ PollWheel

ToggleSpec == ToggleInit /\ [][ToggleNext]_allvars

Next ==
  \/ Tick
  \/ KeyDown
  \/ KeyUp
  \/ EventsDone
  \/ PollArm
  \/ PollStart
  \/ PollEnd
  \/ PollRearm
  \/ TrackSpeed

Spec == Init /\ [][Next]_vars

----------------------------------------------------------------------------
(* The trial state machine's state, read off the three flags *)

State ==
  IF trial_active THEN "Running"
  ELSE IF start_screen THEN "Armed"
  ELSE IF display_results THEN "Finished"
  ELSE "Idle"

\* a KEYDOWN of Enter is being handled by this step
EnterKeyDown == pc = "events" /\ "K_RETURN" \in (held' \ held)
\* the polled start check runs with Enter held
EnterPolledStart == pc = "poll_start" /\ "K_RETURN" \in held
\* the polled check of Enter on the results screen runs with Enter held
EnterPolledRearm == pc = "poll_rearm" /\ "K_RETURN" \in held

\* at least one track_speed tick was consumed by the trial that is Running
TickedInTrial == min_speed_during_run # Inf
\* the previous tick of the Running trial was over the limit
PrevTickOver == TickedInTrial /\ current_speed > max_speed

----------------------------------------------------------------------------
(* Claims *)

\* C1: right after end_trial the summary's violation_count (trial_results
\* and the totals row) equals the number of closed violation windows,
\* len(violation_durations), also when a window was open at the end.
C1_SummaryCountsClosedWindows ==
  last_op = "end_trial" =>
    /\ trial_results.violation_count = Len(violation_durations)
    /\ totals_csv[Len(totals_csv)].violation_count = Len(violation_durations)

\* C2: whenever the trial is not Running, no violation window is open.
C2_NoWindowUnlessRunning == ~trial_active => violation_start = NoTime

\* C3: end_trial appends nothing to violation_durations and writes no event
\* row, also with a window open; a record and an event row appear only
\* together, in a track_speed tick that closes an open window.
C3_EndTrialRecordsNoOpenWindow ==
  [][ /\ last_op' = "end_trial" =>
           /\ violation_durations' = violation_durations
           /\ events_csv' = events_csv
      /\ (events_csv' # events_csv
            \/ Len(violation_durations') > Len(violation_durations)) =>
           /\ last_op' = "track_speed"
           /\ trial_active
           /\ violation_start # NoTime
           /\ current_speed' <= max_speed
           /\ violation_durations' =
                Append(violation_durations,
                       <<now - violation_start, current_speed'>>)
           /\ events_csv' =
                Append(events_csv, EventRow(now - violation_start)) ]_vars

\* C3 witness: end_trial has just run with a violation window open
C3_Witness ==
  /\ last_op = "end_trial"
  /\ violation_start # NoTime
  /\ Len(events_csv) = 1 + Len(violation_durations)

\* C4: a tick at exactly the speed limit never opens a window and never
\* increments violation_count; in a Running trial with a window open it
\* closes the window.
C4_AtLimitIsNoViolation ==
  [][ (last_op' = "track_speed" /\ current_speed' = max_speed) =>
        /\ violation_count' = violation_count
        /\ violation_start = NoTime => violation_start' = NoTime
        /\ (trial_active /\ violation_start # NoTime) =>
             /\ violation_start' = NoTime
             /\ Len(violation_durations') = Len(violation_durations) + 1 ]_vars

\* C4 witness: a tick at exactly the limit has just closed a window
C4_Witness ==
  /\ last_op = "track_speed"
  /\ trial_active
  /\ current_speed = max_speed
  /\ violation_start = NoTime
  /\ Len(violation_durations) = 1
  /\ violation_durations[1][2] = max_speed
  /\ violation_count = 1

C6_StartOnlyFromArmed ==
  [][ /\ last_op' = "initiate_trial" => State = "Armed"
      /\ ((EnterKeyDown \/ EnterPolledStart) /\ State \in {"Idle", "Running"})
           => UNCHANGED trialvars ]_vars

\* C6 witness: the polled start check has just run with Enter held in a
\* Running trial that keeps its violation count
C6_Witness ==
  /\ pc = "poll_end"
  /\ "K_RETURN" \in held
  /\ trial_active
  /\ last_op = "none"
  /\ violation_count = 1
  /\ start_time < now

\* C7: the state changes only along Idle->Armed, Finished->Armed,
\* Armed->Running, Running->Finished and Finished->Idle.
C7_OnlyLifecycleTransitions ==
  [][ State' # State =>
        <<State, State'>> \in { <<"Idle", "Armed">>, <<"Finished", "Armed">>,
                                <<"Armed", "Running">>,
                                <<"Running", "Finished">>,
                                <<"Finished", "Idle">> } ]_vars

\* C8: right after initiate_trial the machine is Running with all per-trial
\* counters reset, start_time = now, a generated trial_code, and the ready
\* prompt and results flags cleared.
C8_InitiateResetsTrial ==
  last_op = "initiate_trial" =>
    /\ trial_active
    /\ violation_count = 0
    /\ violation_durations = <<>>
    /\ violation_start = NoTime
    /\ max_speed_during_run = 0
    /\ min_speed_during_run = Inf
    /\ start_time = now
    /\ trial_code \in Codes
    /\ ~start_screen
    /\ ~display_results

\* C8 witness: initiate_trial has just started a trial after a finished trial
\* that counted a violation
C8_Witness ==
  /\ last_op = "initiate_trial"
  /\ trial_results.computed
  /\ trial_results.violation_count > 0

C10_EndTrialFlushesBuffer ==
  [][ last_op' = "end_trial" =>
        /\ csv_file' = csv_file \o data_to_write
        /\ data_to_write' = <<>> ]_vars

\* C10 witness: the first end_trial of the session has flushed a buffer of
\* two rows
C10_Witness ==
  /\ last_op = "end_trial"
  /\ Len(totals_csv) = 2
  /\ Len(csv_file) = 3
  /\ csv_file[2].elapsed < csv_file[3].elapsed
  /\ data_to_write = <<>>

\* the rows of a stream that are no header
DataRows(stream) == SelectSeq(stream, LAMBDA r : r.kind = "row")

\* the buffered samples that carry the code of the current trial
OwnSamples == SelectSeq(data_to_write, LAMBDA r : r.trial_code = trial_code)

\* C11: after every tick of a Running trial, the trial has buffered its
\* sample 0 (taken at elapsed time 0, the first tick) and at most
\* floor(t / 0.5) + 1 samples, t its elapsed time, and the samples the buffer
\* holds are those of this trial, whatever preceded the trial.
C11_SamplesEveryHalfSecond ==
  (last_op = "track_speed" /\ trial_active) =>
    /\ Len(OwnSamples) >= 1
    /\ OwnSamples[1].elapsed = 0
    /\ Len(OwnSamples) <= ((now - start_time) * 2) \div UnitsPerSecond + 1
    /\ Len(data_to_write) <= ((now - start_time) * 2) \div UnitsPerSecond + 1

\* C12: an event row is written only by a track_speed tick that closes a
\* window, one row per close, carrying the trial's code and the duration of
\* the record appended by the same tick; so the records of violation_durations
\* are, in order, the last rows of the event stream.
C12_OneEventRowPerClose ==
  /\ [](/\ Len(events_csv) >= 1 + Len(violation_durations)
        /\ \A i \in 1 .. Len(violation_durations) :
             LET row == events_csv[Len(events_csv) - Len(violation_durations)
                                     + i]
             IN /\ row.kind = "row"
                /\ row.trial_code = trial_code
                /\ row.violation_duration = violation_durations[i][1])
  /\ [][ IF last_op' = "track_speed"
              /\ Len(violation_durations') = Len(violation_durations) + 1
           THEN /\ Len(events_csv') = Len(events_csv) + 1
                /\ SubSeq(events_csv', 1, Len(events_csv)) = events_csv
           ELSE events_csv' = events_csv ]_vars

\* C12 witness: a tick of a Running trial has just closed a window and the
\* event stream holds its row
C12_Witness ==
  /\ last_op = "track_speed"
  /\ trial_active
  /\ violation_start = NoTime
  /\ Len(violation_durations) = 1
  /\ Len(events_csv) = 2
  /\ events_csv[2].trial_code = trial_code
  /\ events_csv[2].violation_duration = violation_durations[1][1]

\* C13: end_trial appends exactly one totals row, carrying the ended trial's
\* trial_code, no other step changes the totals stream, and the steps from
\* Running to Finished are exactly the end_trial steps.
C13_OneTotalsRowPerEnd ==
  [][ /\ (State = "Running" /\ State' = "Finished") <=> last_op' = "end_trial"
      /\ IF last_op' = "end_trial"
           THEN /\ Len(DataRows(totals_csv')) = Len(DataRows(totals_csv)) + 1
                /\ Len(totals_csv') >= Len(totals_csv) + 1
                /\ SubSeq(totals_csv', Len(totals_csv') - Len(totals_csv),
                          Len(totals_csv') - 1) = totals_csv
                /\ totals_csv'[Len(totals_csv')].kind = "row"
                /\ totals_csv'[Len(totals_csv')].trial_code = trial_code
           ELSE totals_csv' = totals_csv ]_vars

\* C13 witness: the second end_trial of a session in which no run row was
\* ever buffered has written the second totals row
C13_Witness ==
  /\ last_op = "end_trial"
  /\ Len(csv_file) = 1
  /\ Len(DataRows(totals_csv)) = 2
  /\ totals_csv[Len(totals_csv)].trial_code = trial_code

----------------------------------------------------------------------------
(* The control mapper's ticks *)

\* a tick is complete and its command went to apply_control
Applied == ctl_op = "parse_events" /\ polled.applied

\* the tick took the command from the wheel
Analog == joystick /\ FullyMapped

\* C14: for every axis reading in [-1, 1], the ends included, and every
\* damping, the throttle and the brake that _parse_vehicle_wheel stores in
\* the command lie in [0, 1].
C14_PedalsInUnitRange ==
  (Applied /\ Analog) =>
    /\ 0 <= control.throttle /\ control.throttle <= One
    /\ 0 <= control.brake /\ control.brake <= One

\* both ends of the clamp acted: the throttle pedal at -1, the brake at +1
C14_Witness ==
  /\ Applied /\ Analog
  /\ polled.js[2] = 0 - 10 /\ control.throttle = One
  /\ polled.js[3] = 10 /\ control.brake = 0

\* C15: every command that parse_events hands to apply_control has its steer
\* in [-1, 1] and its throttle and brake in [0, 1], with the keys and with
\* the wheel, for every steering damping and every steering reading.
C15_AppliedCommandInRange ==
  Applied =>
    /\ 0 - One <= control.steer /\ control.steer <= One
    /\ 0 <= control.throttle /\ control.throttle <= One
    /\ 0 <= control.brake /\ control.brake <= One

\* C16: a _parse_vehicle_keys tick of ms milliseconds takes 5e-4 * ms from
\* the accumulator while a left key is held, adds it while a right key (and
\* no left key) is held, zeroes the accumulator when neither is held, and
\* clamps it to [-0.7, 0.7]; the steer it emits is the accumulator rounded to
\* one decimal: a multiple of 0.1 in [-0.7, 0.7], and 0 while the
\* accumulator is within 0.05 of 0.
C16_DigitalSteer ==
  [][ctl_op' = "parse_vehicle_keys" =>
       LET inc == (5 * polled'.ms * One) \div 10000
           moved == IF "K_LEFT" \in polled'.keys THEN steer_cache - inc
                    ELSE IF "K_RIGHT" \in polled'.keys THEN steer_cache + inc
                    ELSE 0
           emitted == control'.steer
       IN /\ steer_cache' = Max(0 - SteerLimit, Min(SteerLimit, moved))
          /\ \E t \in (0 - 7) .. 7 : emitted * 10 = t * One
          /\ 2 * emitted <= 2 * steer_cache' + One \div 10
          /\ 2 * emitted >= 2 * steer_cache' - One \div 10
          /\ (2 * steer_cache' < One \div 10 /\ 2 * steer_cache' > 0 - One \div 10)
               => emitted = 0]_allvars

\* the left key held for three ticks of 16 ms: accumulator -0.024, steer 0
C16_Witness ==
  /\ Applied /\ ~Analog
  /\ ctl_ticks = 3
  /\ "K_LEFT" \in polled.keys /\ polled.ms = 16
  /\ steer_cache * 1000 = 0 - 24 * One
  /\ control.steer = 0

\* C17: on a tick with a device whose steering, throttle and brake axes are
\* all mapped, the applied steer, throttle and brake are the curves of the
\* axis readings, whatever keys are held; on a tick without a device or with
\* an unmapped axis they are the values of the keys.
C17_WheelOverridesKeys ==
  Applied =>
    IF Analog
      THEN /\ control.steer = (dampings.steering * tan(11 * polled.js[1])) \div 10
           /\ control.throttle =
                Max(0, Min(One, pedalCmd(dampings.throttle, polled.js[2])))
           /\ control.brake =
                Max(0, Min(One, pedalCmd(dampings.brake, polled.js[3])))
      ELSE /\ control.steer \in round1(steer_cache)
           /\ control.throttle = (IF "K_UP" \in polled.keys THEN One ELSE 0)
           /\ control.brake = (IF "K_DOWN" \in polled.keys THEN One ELSE 0)

\* the throttle and left keys are held while the wheel gives no throttle,
\* full brake and a turn to the right
C17_Witness ==
  /\ Applied /\ Analog
  /\ {"K_UP", "K_LEFT"} \subseteq polled.keys
  /\ "K_DOWN" \notin polled.keys
  /\ control.throttle = 0
  /\ control.brake = One
  /\ control.steer > 0

\* C18: only a key or button event changes the toggles: the polled part of a
\* tick leaves the command's hand_brake and gear as they are.
C18_TogglesChangeOnEventsOnly ==
  [][ctl_op' \in {"parse_vehicle_keys", "parse_events", "raised"} =>
       /\ control'.hand_brake = control.hand_brake
       /\ control'.gear = control.gear]_allvars

\* a reverse toggle: the Q key, the mapped key or the mapped button
ReverseToggles == {"K_q", "reverse_key", "reverse_button"}

\* C19: at the end of every tick reverse = (gear < 0), with autopilot on or
\* off, so that a reverse toggle that follows a complete tick takes the gear
\* to 1 from reverse and to -1 from any other gear.
C19_ReverseFollowsGear ==
  /\ [](ctl_op = "parse_events" => (control.reverse <=> control.gear < 0))
  /\ [][(ctl_op = "parse_events" /\ ctl_op' \in ReverseToggles) =>
          control'.gear = IF control.gear < 0 THEN 1 ELSE 0 - 1]_allvars

\* C20: no tick of parse_events ends in an exception of the wheel's reading.
C20_WheelFailureDoesNotRaise == ctl_op # "raised"

----------------------------------------------------------------------------
(* The trial harness: counters, ticks outside a trial and the summary *)

\* the counters of one trial
counters == <<violation_count, violation_durations, max_speed_during_run,
              min_speed_during_run>>

\* C23 as stated: immediately after start_trial violation_count is 0,
\* violation_durations is empty and the max/min speed trackers hold their
\* initial values.
C23_ArmResetsCounters ==
  [][last_op' = "start_trial" =>
       /\ violation_count' = 0
       /\ violation_durations' = <<>>
       /\ max_speed_during_run' = 0
       /\ min_speed_during_run' = Inf]_vars

\* C23 amended: start_trial leaves the counters of the last trial as they
\* are and only shows the ready prompt; they hold their initial values
\* immediately after initiate_trial.
C23_StartResetsCounters ==
  [][/\ last_op' = "start_trial" =>
          /\ UNCHANGED counters
          /\ start_screen' /\ ~trial_active'
     /\ last_op' = "initiate_trial" =>
          counters' = <<0, <<>>, 0, Inf>>]_vars

\* armed from Finished by the polled Enter, after a trial with a violation
C23_Witness ==
  /\ last_op = "start_trial"
  /\ pc = "track"
  /\ display_results
  /\ violation_count > 0
  /\ Len(violation_durations) > 0
  /\ min_speed_during_run # Inf

\* C24: a track_speed tick outside a trial changes current_speed only.
C24_TickOutsideTrialOnlySetsSpeed ==
  [][(last_op' = "track_speed" /\ ~trial_active) =>
       UNCHANGED <<violation_count, violation_durations, violation_start,
                   max_speed_during_run, min_speed_during_run, data_to_write,
                   csv_file, events_csv, totals_csv, trial_results,
                   speeding_warning, trial_active, display_results,
                   start_screen>>]_vars

\* a tick over the limit, and over the trial's peak, on the results screen
C24_Witness ==
  /\ last_op = "track_speed"
  /\ State = "Finished"
  /\ trial_results.computed
  /\ current_speed > max_speed
  /\ current_speed > max_speed_during_run

\* C25: the summary of end_trial has avg_speed = the mean of the speeds of
\* the records and avg_violation_duration = the mean of their durations;
\* both are 0 when the trial closed no window.
C25_SummaryAverages ==
  last_op = "end_trial" =>
    LET n == Len(violation_durations) IN
    IF n = 0
      THEN /\ trial_results.avg_speed = <<0, 1>>
           /\ trial_results.avg_violation_duration = <<0, 1>>
      ELSE /\ trial_results.avg_speed = <<SumOf(violation_durations, 2), n>>
           /\ trial_results.avg_violation_duration =
                <<SumOf(violation_durations, 1), n>>

\* a summary over a closed window
C25_Witness ==
  /\ last_op = "end_trial"
  /\ Len(violation_durations) > 0
  /\ trial_results.avg_speed[1] > 0
  /\ trial_results.avg_violation_duration[1] > 0

\* the trial flags that are set
FlagsSet ==
  {f \in {"start_screen", "trial_active", "display_results"} :
     \/ f = "start_screen" /\ start_screen
     \/ f = "trial_active" /\ trial_active
     \/ f = "display_results" /\ display_results}

\* C26: at most one of start_screen, trial_active and display_results is set.
C26_FlagsMutuallyExclusive == Cardinality(FlagsSet) <= 1

\* C27: the rows end_trial writes to the run stream carry the code of the
\* trial it ends, and the run buffer is empty when initiate_trial has run.
C27_RunRowsBelongToTrial ==
  /\ [](last_op = "initiate_trial" => data_to_write = <<>>)
  /\ [][last_op' = "end_trial" =>
          \A i \in (Len(csv_file) + 1) .. Len(csv_file') :
            csv_file'[i].trial_code = trial_code]_vars

\* C28: every summary of end_trial has a finite min speed, at most the max
\* speed: a tick was consumed between initiate_trial and end_trial.
C28_SummaryHasTick ==
  last_op = "end_trial" =>
    /\ min_speed_during_run # Inf
    /\ min_speed_during_run <= max_speed_during_run

\* C29: the speed of every violation record is at most the speed limit, and
\* so is the avg_speed of every summary.
C29_RecordedSpeedWithinLimit ==
  /\ \A i \in 1 .. Len(violation_durations) :
       violation_durations[i][2] <= max_speed
  /\ trial_results.computed =>
       trial_results.avg_speed[1] <= max_speed * trial_results.avg_speed[2]

\* a record at the limit in a trial that went over it, and its summary
C29_Witness ==
  /\ last_op = "end_trial"
  /\ Len(violation_durations) > 0
  /\ violation_durations[1][2] = max_speed
  /\ max_speed_during_run > max_speed
  /\ trial_results.avg_speed[1] = max_speed

----------------------------------------------------------------------------
(* The text box of the user name *)

\* C30: a key-down that the active text box consumes causes no trial
\* transition; Enter on the ready prompt confirms the name and leaves the
\* machine Armed, without initiate_trial.
C30_TextBoxKeyIsNoTrialAction ==
  [][(pc = "events" /\ held' \ held # {} /\ active_input) =>
       /\ UNCHANGED <<trial_active, start_screen, display_results>>
       /\ last_op' \notin {"initiate_trial", "end_trial", "dismiss"}]_vars

----------------------------------------------------------------------------
(* The logs *)

\* C22: an append that fails (the event row in track_speed, the run batch
\* or the totals row in end_trial) does not stop the session: the frame
\* loop goes on, with the trial's records and buffered rows in memory.
C22_WriteFailureKeepsSession == pc # "raised"

----------------------------------------------------------------------------
(* Readings outside the domain of the pedal curve *)

\* the last tick read a pedal outside the domain of the curve
PedalOutOfDomain ==
  /\ Len(polled.js) = 3
  /\ ~InDomain(polled.js[2]) \/ ~InDomain(polled.js[3])

\* C21: a tick whose throttle or brake reading is outside the curve's domain
\* (raw >= 2) completes and applies a command; no error reaches game_loop.
C21_OutOfDomainTickCompletes == PedalOutOfDomain => Applied

====
